---------------------------- MODULE Spec2Model ----------------------------
(***************************************************************************)
(* Human-in-the-loop control loop (run_agent_with_hitl) and audit trail    *)
(* (AuditLogger) of hitl_implementation.py.                                *)
(*                                                                         *)
(* Two control-loop runs share one audit store.  Each run is a small       *)
(* program counter machine over the statements of run_agent_with_hitl;     *)
(* log_review is split at the point where the file has been opened and the *)
(* line has not been written yet, which is where another writer can get in.*)
(* A separate client calls the AuditLogger API directly.                   *)
(***************************************************************************)
EXTENDS Integers, Sequences, FiniteSets, TLC

(***************************************************************************)
(* Bounds of the model.                                                    *)
(***************************************************************************)
MaxIter == 2          \* largest max_iterations a caller passes
MaxPauses == 2        \* largest number of pauses of an agent that terminates
MaxBatch == 2         \* largest number of action requests in one pause batch
MaxActions == 3       \* largest number of action requests an agent proposes in one run
MaxLogs == 3          \* largest number of direct log_review calls of the client

Runs == {1, 2}

ToolNames == {"write_file", "task"}
OriginalArgs == {"args0"}
EditedArgs == {"args1"}
ThreadIds == {"thread_a", "thread_b"}
Reviewers == {"legal_team_member", "auto_approve_system"}
Contents == {"Done"}

None == "null"

(***************************************************************************)
(* Data: action requests, review configs, decisions, agent results.        *)
(***************************************************************************)
ActionRequests == [name : ToolNames, args : OriginalArgs]

AllowedSets == {<<"approve", "edit", "reject">>}

ReviewConfigs == [action_name : ToolNames, allowed_decisions : AllowedSets]

SeqUpTo(S, n) == UNION {[1..k -> S] : k \in 0..n}

\* the review configs an agent sends: one config for each tool of a set of tools
ConfigsFor(tools) ==
  LET order == CHOOSE s \in [1..Cardinality(tools) -> tools] : {s[i] : i \in DOMAIN s} = tools
  IN [i \in DOMAIN order |-> [action_name |-> order[i], allowed_decisions |-> <<"approve", "edit", "reject">>]]

ConfigLists == {ConfigsFor(tools) : tools \in SUBSET ToolNames}

Approve == [type |-> "approve"]

Reject == [type |-> "reject"]

Edit(name, args) == [type |-> "edit", edited_action |-> [name |-> name, args |-> args]]

\* the decisions a review interface can return for an action request
Decisions(action) == {Approve, Reject} \cup {Edit(action.name, a) : a \in EditedArgs}

\* result of an agent call: interrupt is the "__interrupt__" list (empty when
\* the key is absent), messages the final content (None when absent)
Paused(reqs, cfgs) ==
  [interrupt |-> <<[action_requests |-> reqs, review_configs |-> cfgs]>>, messages |-> None]

Terminal(content) == [interrupt |-> <<>>, messages |-> content]

NoResult == [interrupt |-> <<>>, messages |-> None]

\* number of action requests a result proposes
Proposed(result) ==
  IF Len(result.interrupt) > 0 THEN Len(result.interrupt[1].action_requests) ELSE 0

\* Python truthiness of result.get("__interrupt__")
HasInterrupt(result) == Len(result.interrupt) > 0

\* variant: a lookup that falls back to a default config for an unknown name
ConfigMap_Default(review_configs) ==
  [n \in ToolNames |->
     IF \E i \in DOMAIN review_configs : review_configs[i].action_name = n
     THEN review_configs[CHOOSE i \in DOMAIN review_configs : review_configs[i].action_name = n]
     ELSE [action_name |-> n, allowed_decisions |-> <<"approve", "edit", "reject">>]]

\* config_map = {cfg["action_name"]: cfg for cfg in review_configs}: a later
\* config of the same name replaces an earlier one
ConfigMap(review_configs) ==
  [n \in {review_configs[i].action_name : i \in DOMAIN review_configs} |->
     LET last == CHOOSE i \in DOMAIN review_configs :
                   /\ review_configs[i].action_name = n
                   /\ \A j \in DOMAIN review_configs :
                        review_configs[j].action_name = n => j <= i
     IN review_configs[last]]

(***************************************************************************)
(* AuditLogger: the store is a text file of lines, or absent.              *)
(***************************************************************************)
AbsentStore == [exists |-> FALSE, lines |-> <<>>]

\* context=None, the default of log_review
NoContext == [k \in {} |-> 0]

\* context = {"stage": f"iteration {iteration}", "thread_id": thread_id}
Context(iteration, thread_id) == [stage |-> <<"iteration", iteration>>, thread_id |-> thread_id]

\* decision.get("edited_action", {}).get("args")
EditedArgsOf(decision) ==
  IF "edited_action" \in DOMAIN decision THEN decision.edited_action.args ELSE None

\* variant: reviewer and thread_id interchanged
LogEntry_Swapped(now, action_request, decision, reviewer, thread_id, context) ==
  [timestamp |-> now,
   thread_id |-> reviewer,
   reviewer |-> thread_id,
   action_tool |-> action_request.name,
   action_args |-> action_request.args,
   decision_type |-> decision.type,
   edited_args |-> EditedArgsOf(decision),
   context |-> context]

LogEntry(now, action_request, decision, reviewer, thread_id, context) ==
  [timestamp |-> now,
   thread_id |-> thread_id,
   reviewer |-> reviewer,
   action_tool |-> action_request.name,
   action_args |-> action_request.args,
   decision_type |-> decision.type,
   edited_args |-> EditedArgsOf(decision),
   context |-> context]

\* json.dumps(log_entry): the members in insertion order; the text holds no
\* raw line break, so the entry is one line of the file
Dumps(e) ==
  << <<"timestamp", e.timestamp>>, <<"thread_id", e.thread_id>>,
     <<"reviewer", e.reviewer>>, <<"action_tool", e.action_tool>>,
     <<"action_args", e.action_args>>, <<"decision_type", e.decision_type>>,
     <<"edited_args", e.edited_args>>, <<"context", e.context>> >>

\* value of member k of a parsed line
Member(line, k) == line[CHOOSE i \in DOMAIN line : line[i][1] = k][2]

\* json.loads(line)
Loads(line) ==
  [timestamp |-> Member(line, "timestamp"),
   thread_id |-> Member(line, "thread_id"),
   reviewer |-> Member(line, "reviewer"),
   action_tool |-> Member(line, "action_tool"),
   action_args |-> Member(line, "action_args"),
   decision_type |-> Member(line, "decision_type"),
   edited_args |-> Member(line, "edited_args"),
   context |-> Member(line, "context")]

\* open(self.log_file, 'a'): creates the file when absent; the handle's
\* position starts at the end of the file
OpenAppend(st) == [exists |-> TRUE, lines |-> st.lines]

HandleAt(st) == [mode |-> "a", pos |-> Len(st.lines)]

NoHandle == [mode |-> "closed", pos |-> 0]

\* variant: the file opened with mode 'w', which drops what it held
FileWrite_Truncating(st, handle, line) == [exists |-> TRUE, lines |-> <<line>>]

\* variant: the line is written at the position the handle had when the file
\* was opened, over whatever another writer put there in between
FileWrite_AtPosition(st, handle, line) ==
  [exists |-> TRUE,
   lines |-> IF handle.pos < Len(st.lines)
             THEN [st.lines EXCEPT ![handle.pos + 1] = line]
             ELSE Append(st.lines, line)]

\* f.write(line) and the flush at the end of the with block: in append mode
\* the line goes to the current end of the file, whatever the handle's position
FileWrite(st, handle, line) == [exists |-> TRUE, lines |-> Append(st.lines, line)]

\* dict.get(k, 0) and d[k] = v on a dict modelled as a function
Get(d, k) == IF k \in DOMAIN d THEN d[k] ELSE 0

Put(d, k, v) == [x \in DOMAIN d \cup {k} |-> IF x = k THEN v ELSE d[x]]

\* the {} that get_review_stats returns when the store does not exist
EmptyStats == [k \in {} |-> 0]

InitialStats ==
  [total_reviews |-> 0,
   by_decision |-> [k \in {"approve", "edit", "reject"} |-> 0],
   by_tool |-> [k \in {} |-> 0],
   by_reviewer |-> [k \in {} |-> 0]]

\* variant: a decision type outside approve, edit and reject is not counted
CountEntry_KnownOnly(stats, line) ==
  LET entry == Loads(line)
  IN [total_reviews |-> stats.total_reviews + 1,
      by_decision |-> IF entry.decision_type \in DOMAIN stats.by_decision
                      THEN Put(stats.by_decision, entry.decision_type,
                               stats.by_decision[entry.decision_type] + 1)
                      ELSE stats.by_decision,
      by_tool |-> Put(stats.by_tool, entry.action_tool,
                      Get(stats.by_tool, entry.action_tool) + 1),
      by_reviewer |-> Put(stats.by_reviewer, entry.reviewer,
                          Get(stats.by_reviewer, entry.reviewer) + 1)]

\* body of the loop "for line in f" of get_review_stats
CountEntry(stats, line) ==
  LET entry == Loads(line)
  IN [total_reviews |-> stats.total_reviews + 1,
      by_decision |-> Put(stats.by_decision, entry.decision_type,
                          Get(stats.by_decision, entry.decision_type) + 1),
      by_tool |-> Put(stats.by_tool, entry.action_tool,
                      Get(stats.by_tool, entry.action_tool) + 1),
      by_reviewer |-> Put(stats.by_reviewer, entry.reviewer,
                          Get(stats.by_reviewer, entry.reviewer) + 1)]

RECURSIVE FoldLines(_, _)
FoldLines(stats, lines) ==
  IF lines = <<>> THEN stats
  ELSE FoldLines(CountEntry(stats, Head(lines)), Tail(lines))

GetReviewStats(st) ==
  IF ~st.exists THEN EmptyStats ELSE FoldLines(InitialStats, st.lines)

\* sum of the values of a dict of counts
RECURSIVE SumOver(_, _)
SumOver(d, keys) ==
  IF keys = {} THEN 0
  ELSE LET k == CHOOSE x \in keys : TRUE IN d[k] + SumOver(d, keys \ {k})

SumValues(d) == SumOver(d, DOMAIN d)

(***************************************************************************)
(* Review interfaces, as the control loop sees them.                       *)
(***************************************************************************)
Interfaces == {"auto", "cli"}

\* AutoApproveInterface.review_action always approves; the interactive
\* interface returns what the human chose
ReviewAction(interface, action_request, review_config, context) ==
  IF interface = "auto" THEN {Approve} ELSE Decisions(action_request)

(***************************************************************************)
(* State.                                                                  *)
(***************************************************************************)
VARIABLES
  pc,              \* per run: statement of run_agent_with_hitl it is at
  thread_id,       \* per run: argument thread_id
  max_iterations,  \* per run: argument max_iterations
  agent_config,    \* per run: review_interface, reviewer_name, audit_logger
  plan,            \* per run: the agent's behaviour (always pauses / pauses k times)
  result,          \* per run: local result
  iteration,       \* per run: local iteration
  decisions,       \* per run: local decisions of the current batch
  idx,             \* per run: position of the for loop in action_requests
  handle,          \* per run: file handle of the log_review call in progress
  entry,           \* per run: log_entry of the log_review call in progress
  calls,           \* per run: number of agent calls made, of actions proposed, and the last call
  reviews,         \* per run: number of reviews made, and those of the current batch (history)
  logged,          \* per run: entries of its log_review calls that returned (history)
  outcome,         \* per run: returned result, warning, raised error
  store,           \* the audit log file
  clock,           \* datetime.now(), as the number of the reading
  stats,           \* client: result of its last get_review_stats call, and the number of
                   \*         log_review calls made before it
  logCalls,        \* client: arguments of its log_review calls, in order (history)
  loggers,         \* the AuditLogger instances constructed, and which of them wrote
                   \* each record and made the last get_review_stats call (history)
  levels,          \* the approval levels a caller has constructed, in order
  review           \* one review_action call: its arguments, position, locals and result

vars == <<pc, thread_id, max_iterations, agent_config, plan, result, iteration,
          decisions, idx, handle, entry, calls, reviews, logged, outcome, store,
          clock, stats, logCalls, loggers, levels, review>>

runLocals == <<result, iteration, decisions, idx, handle, entry>>

runArgs == <<thread_id, max_iterations, agent_config, plan>>

clientVars == <<stats, logCalls>>

sessionVars == <<loggers, levels, review>>

Plans == [always : {TRUE}, pauses : {0}] \cup [always : {FALSE}, pauses : 0..MaxPauses]

\* create_agent_with_hitl as example_cli_review and example_auto_approve call it,
\* with and without enable_audit
AgentConfigs ==
  [review_interface : {"cli"}, reviewer_name : {"legal_team_member"}, audit_logger : BOOLEAN]
  \cup [review_interface : {"auto"}, reviewer_name : {"auto_approve_system"}, audit_logger : BOOLEAN]

NoCall == [kind |-> "none", thread_id |-> None, decisions |-> <<>>, batch |-> <<>>]

NoEntry == LogEntry(0, [name |-> None, args |-> None], [type |-> None], None, None, Context(0, None))

NoOutcome == [returned |-> FALSE, result |-> NoResult, warned |-> FALSE, raised |-> None]

NoStats == [called |-> FALSE, after |-> 0, value |-> EmptyStats]

Min(a, b) == IF a < b THEN a ELSE b

\* what the agent may return on its call number n + 1, having proposed
\* `proposed` action requests so far
AgentReturns(p, n, proposed) ==
  IF p.always \/ n < p.pauses
  THEN {Paused(reqs, cfgs) :
          reqs \in SeqUpTo(ActionRequests, Min(MaxBatch, MaxActions - proposed)),
          cfgs \in ConfigLists}
  ELSE {Terminal(c) : c \in Contents}

NoLoggers == [n |-> 0, writers |-> <<>>, reader |-> 0]

NoRequest == [name |-> None, args |-> None]

\* no review_action call has been made
IdleReview ==
  [pc |-> "idle", interface |-> None, request |-> NoRequest, original |-> NoRequest,
   config |-> [action_name |-> None], context |-> NoContext,
   answer |-> [type |-> None], raised |-> None, local |-> <<>>, tried |-> {},
   choice |-> None, edit_choice |-> None]

\* no logger instance, no approval level and no review yet
InitSession ==
  /\ loggers = NoLoggers
  /\ levels = <<>>
  /\ review = IdleReview

\* the locals and history of the runs before their first statement
InitRuns(started) ==
  /\ pc = [r \in Runs |-> IF r \in started THEN "invoke" ELSE "off"]
  /\ result = [r \in Runs |-> NoResult]
  /\ iteration = [r \in Runs |-> 0]
  /\ decisions = [r \in Runs |-> <<>>]
  /\ idx = [r \in Runs |-> 0]
  /\ handle = [r \in Runs |-> NoHandle]
  /\ entry = [r \in Runs |-> NoEntry]
  /\ calls = [r \in Runs |-> [n |-> 0, proposed |-> 0, last |-> NoCall]]
  /\ reviews = [r \in Runs |-> [n |-> 0, batch |-> <<>>]]
  /\ logged = [r \in Runs |-> <<>>]
  /\ outcome = [r \in Runs |-> NoOutcome]

InitClient ==
  /\ clock = 1
  /\ stats = NoStats
  /\ logCalls = <<>>

\* one run of the control loop on an absent store
Init ==
  /\ InitRuns({1})
  /\ thread_id = [r \in Runs |-> "thread_a"]
  /\ \E m \in 0..MaxIter : max_iterations = [r \in Runs |-> m]
  /\ \E c \in AgentConfigs : agent_config = [r \in Runs |-> c]
  /\ \E p \in Plans : plan = [r \in Runs |-> p]
  /\ store = AbsentStore
  /\ InitClient
  /\ InitSession

(***************************************************************************)
(* run_agent_with_hitl, statement by statement.                            *)
(***************************************************************************)
ActionRequestsOf(r) == result[r].interrupt[1].action_requests

ReviewConfigsOf(r) == result[r].interrupt[1].review_configs

\* agent.invoke({"messages": [...]}, config=config); iteration = 0
Invoke(r) ==
  /\ pc[r] = "invoke"
  /\ \E res \in AgentReturns(plan[r], calls[r].n, calls[r].proposed) :
       /\ result' = [result EXCEPT ![r] = res]
       /\ calls' = [calls EXCEPT ![r] =
                      [n |-> @.n + 1,
                       proposed |-> @.proposed + Proposed(res),
                       last |-> [kind |-> "invoke", thread_id |-> thread_id[r],
                                 decisions |-> <<>>, batch |-> <<>>]]]
  /\ iteration' = [iteration EXCEPT ![r] = 0]
  /\ pc' = [pc EXCEPT ![r] = "while"]
  /\ UNCHANGED <<runArgs, decisions, idx, handle, entry, reviews, logged, outcome, store, clock, clientVars, sessionVars>>

\* variant: the counter is compared with a bound two too large
LoopCondition_Slack(r) == HasInterrupt(result[r]) /\ iteration[r] < max_iterations[r] + 2

\* variant: the bound compared with <=
LoopCondition_Inclusive(r) == HasInterrupt(result[r]) /\ iteration[r] <= max_iterations[r]

\* variant: the loop gives up one iteration early
LoopCondition_Early(r) == HasInterrupt(result[r]) /\ iteration[r] + 1 < max_iterations[r]

\* while result.get("__interrupt__") and iteration < max_iterations
LoopCondition(r) == HasInterrupt(result[r]) /\ iteration[r] < max_iterations[r]

\* the loop is entered: iteration += 1, decisions = []
EnterIteration(r) ==
  /\ pc[r] = "while"
  /\ LoopCondition(r)
  /\ iteration' = [iteration EXCEPT ![r] = @ + 1]
  /\ decisions' = [decisions EXCEPT ![r] = <<>>]
  /\ idx' = [idx EXCEPT ![r] = 1]
  /\ reviews' = [reviews EXCEPT ![r].batch = <<>>]
  /\ pc' = [pc EXCEPT ![r] = "for"]
  /\ UNCHANGED <<runArgs, result, handle, entry, calls, logged, outcome, store, clock, clientVars, sessionVars>>

\* if iteration >= max_iterations: print the warning
WarningCondition(r) == iteration[r] >= max_iterations[r]

\* the loop is left: the warning test and return result
Return(r) ==
  /\ pc[r] = "while"
  /\ ~LoopCondition(r)
  /\ outcome' = [outcome EXCEPT ![r] = [returned |-> TRUE, result |-> result[r],
                                         warned |-> WarningCondition(r), raised |-> None]]
  /\ pc' = [pc EXCEPT ![r] = "done"]
  /\ UNCHANGED <<runArgs, runLocals, calls, reviews, logged, store, clock, clientVars, sessionVars>>

\* variant: decisions.insert(0, decision)
AppendDecision_Front(ds, decision) == <<decision>> \o ds

\* decisions.append(decision)
AppendDecision(ds, decision) == Append(ds, decision)

\* body of "for action in action_requests" up to decisions.append(decision)
Review(r) ==
  /\ pc[r] = "for"
  /\ idx[r] <= Len(ActionRequestsOf(r))
  /\ LET action == ActionRequestsOf(r)[idx[r]]
         config_map == ConfigMap(ReviewConfigsOf(r))
         context == Context(iteration[r], thread_id[r])
     IN /\ action.name \in DOMAIN config_map
        /\ \E decision \in ReviewAction(agent_config[r].review_interface, action,
                                         config_map[action.name], context) :
             /\ decisions' = [decisions EXCEPT ![r] = AppendDecision(@, decision)]
             /\ reviews' = [reviews EXCEPT ![r] =
                              [n |-> @.n + 1,
                               batch |-> Append(@.batch, [index |-> idx[r], action |-> action,
                                                          decision |-> decision])]]
  /\ IF agent_config[r].audit_logger
     THEN pc' = [pc EXCEPT ![r] = "log_review"] /\ idx' = idx
     ELSE pc' = pc /\ idx' = [idx EXCEPT ![r] = @ + 1]
  /\ UNCHANGED <<runArgs, result, iteration, handle, entry, calls, logged, outcome, store, clock, clientVars, sessionVars>>

\* review_config = config_map[action["name"]] raises KeyError
MissingConfig(r) ==
  /\ pc[r] = "for"
  /\ idx[r] <= Len(ActionRequestsOf(r))
  /\ LET action == ActionRequestsOf(r)[idx[r]]
     IN /\ action.name \notin DOMAIN ConfigMap(ReviewConfigsOf(r))
        /\ outcome' = [outcome EXCEPT ![r] = [returned |-> FALSE, result |-> NoResult,
                                              warned |-> FALSE, raised |-> action.name]]
  /\ pc' = [pc EXCEPT ![r] = "raised"]
  /\ UNCHANGED <<runArgs, runLocals, calls, reviews, logged, store, clock, clientVars, sessionVars>>

\* audit_logger.log_review(...): log_entry is built and the file opened
LogOpen(r) ==
  /\ pc[r] = "log_review"
  /\ LET last == reviews[r].batch[Len(reviews[r].batch)]
     IN entry' = [entry EXCEPT ![r] =
                    LogEntry(clock, last.action, last.decision, agent_config[r].reviewer_name,
                             thread_id[r], Context(iteration[r], thread_id[r]))]
  /\ clock' = clock + 1
  /\ handle' = [handle EXCEPT ![r] = HandleAt(store)]
  /\ store' = OpenAppend(store)
  /\ pc' = [pc EXCEPT ![r] = "log_write"]
  /\ UNCHANGED <<runArgs, result, iteration, decisions, idx, calls, reviews, logged, outcome, clientVars, sessionVars>>

\* the line is written and the file closed; the for loop moves on
LogWrite(r) ==
  /\ pc[r] = "log_write"
  /\ store' = FileWrite(store, handle[r], Dumps(entry[r]))
  /\ handle' = [handle EXCEPT ![r] = NoHandle]
  /\ logged' = [logged EXCEPT ![r] = Append(@, entry[r])]
  /\ entry' = [entry EXCEPT ![r] = NoEntry]
  /\ idx' = [idx EXCEPT ![r] = @ + 1]
  /\ pc' = [pc EXCEPT ![r] = "for"]
  /\ UNCHANGED <<runArgs, result, iteration, decisions, calls, reviews, outcome, clock, clientVars, sessionVars>>

\* variant: the resuming call is given a config with another thread
ResumeThread_Fresh(r) == CHOOSE t \in ThreadIds : t # thread_id[r]

\* config of the resuming call: the same config object as the first call
ResumeThread(r) == thread_id[r]

\* result = agent.invoke(Command(resume={"decisions": decisions}), config=config)
Resume(r) ==
  /\ pc[r] = "for"
  /\ idx[r] > Len(ActionRequestsOf(r))
  /\ \E res \in AgentReturns(plan[r], calls[r].n, calls[r].proposed) :
       /\ result' = [result EXCEPT ![r] = res]
       /\ calls' = [calls EXCEPT ![r] =
                      [n |-> @.n + 1,
                       proposed |-> @.proposed + Proposed(res),
                       last |-> [kind |-> "resume", thread_id |-> ResumeThread(r),
                                 decisions |-> decisions[r], batch |-> ActionRequestsOf(r)]]]
  /\ pc' = [pc EXCEPT ![r] = "while"]
  /\ UNCHANGED <<runArgs, iteration, decisions, idx, handle, entry, reviews, logged, outcome, store, clock, clientVars, sessionVars>>

RunStep(r) ==
  \/ Invoke(r)
  \/ EnterIteration(r)
  \/ Review(r)
  \/ MissingConfig(r)
  \/ LogOpen(r)
  \/ LogWrite(r)
  \/ Resume(r)
  \/ Return(r)

Next == \E r \in Runs : RunStep(r)

Spec == Init /\ [][Next]_vars

\* two runs of the control loop, with different thread ids, log to one store;
\* each goes through one approval cycle of an agent that pauses once
InitConcurrent ==
  /\ InitRuns(Runs)
  /\ thread_id = [r \in Runs |-> IF r = 1 THEN "thread_a" ELSE "thread_b"]
  /\ max_iterations = [r \in Runs |-> 1]
  /\ agent_config = [r \in Runs |-> [review_interface |-> "auto",
                                     reviewer_name |-> "auto_approve_system",
                                     audit_logger |-> TRUE]]
  /\ plan = [r \in Runs |-> [always |-> FALSE, pauses |-> 1]]
  /\ store = AbsentStore
  /\ InitClient
  /\ InitSession

SpecConcurrent == InitConcurrent /\ [][Next]_vars

(***************************************************************************)
(* A client of AuditLogger: log_review and get_review_stats called         *)
(* directly, one call after the other.                                     *)
(***************************************************************************)
ClientDecisions(action) == Decisions(action) \cup {[type |-> "escalate"]}

\* thread_id and context of the client's calls, by reviewer
ClientThread(reviewer) == IF reviewer = "legal_team_member" THEN "thread_a" ELSE "thread_b"

ClientContext(reviewer) ==
  IF reviewer = "legal_team_member" THEN Context(1, "thread_a") ELSE NoContext

\* AuditLogger.log_review, a whole call
LogReview(st, now, action_request, decision, reviewer, tid, context) ==
  FileWrite(OpenAppend(st), HandleAt(st),
            Dumps(LogEntry(now, action_request, decision, reviewer, tid, context)))

ClientLogReview ==
  /\ Len(logCalls) < MaxLogs
  /\ \E action \in ActionRequests, reviewer \in Reviewers :
       \E decision \in ClientDecisions(action) :
         /\ store' = LogReview(store, clock, action, decision, reviewer,
                               ClientThread(reviewer), ClientContext(reviewer))
         /\ logCalls' = Append(logCalls, [action_request |-> action, decision |-> decision,
                                          reviewer |-> reviewer,
                                          thread_id |-> ClientThread(reviewer),
                                          context |-> ClientContext(reviewer),
                                          now |-> clock])
  /\ clock' = clock + 1
  /\ UNCHANGED <<pc, runArgs, runLocals, calls, reviews, logged, outcome, stats, sessionVars>>

ClientGetReviewStats ==
  /\ stats' = [called |-> TRUE, after |-> Len(logCalls), value |-> GetReviewStats(store)]
  /\ UNCHANGED <<pc, runArgs, runLocals, calls, reviews, logged, outcome, store, clock, logCalls, sessionVars>>

InitAudit ==
  /\ InitRuns({})
  /\ thread_id = [r \in Runs |-> "thread_a"]
  /\ max_iterations = [r \in Runs |-> 0]
  /\ agent_config = [r \in Runs |-> [review_interface |-> "auto",
                                     reviewer_name |-> "auto_approve_system",
                                     audit_logger |-> TRUE]]
  /\ plan = [r \in Runs |-> [always |-> FALSE, pauses |-> 0]]
  /\ store = AbsentStore
  /\ InitClient
  /\ InitSession

NextAudit == ClientLogReview \/ ClientGetReviewStats

SpecAudit == InitAudit /\ [][NextAudit]_vars

(***************************************************************************)
(* Properties of the control loop.                                         *)
(***************************************************************************)
Started == {r \in Runs : pc[r] # "off"}

\* the names that have an entry in the review_configs of the batch run r is in
ConfiguredNames(r) == {ReviewConfigsOf(r)[i].action_name : i \in DOMAIN ReviewConfigsOf(r)}

\* C1: with an agent that pauses on every call and max_iterations = N >= 1, a
\* run that returns has made exactly N + 1 agent calls, the last of them a
\* resume, and returns a result that still carries the pause signal
C1_AlwaysPausingExhausts ==
  \A r \in Started :
    (plan[r].always /\ max_iterations[r] >= 1 /\ pc[r] = "done") =>
      /\ calls[r].n = max_iterations[r] + 1
      /\ calls[r].last.kind = "resume"
      /\ outcome[r].returned
      /\ HasInterrupt(outcome[r].result)

C1_Witness ==
  \E r \in Started :
    /\ plan[r].always /\ max_iterations[r] = 2 /\ pc[r] = "done"
    /\ calls[r].n = 3 /\ HasInterrupt(outcome[r].result)

\* C2: with an agent that pauses on its first k calls and then returns a
\* terminal result, k <= max_iterations, a run that returns has made exactly
\* k + 1 agent calls and returns that terminal result; for k = 0 it made the
\* single invoke and solicited no review
C2_TerminatingAgentCompletes ==
  \A r \in Started :
    (~plan[r].always /\ plan[r].pauses <= max_iterations[r] /\ pc[r] = "done") =>
      /\ calls[r].n = plan[r].pauses + 1
      /\ outcome[r].returned
      /\ ~HasInterrupt(outcome[r].result)
      /\ outcome[r].result = result[r]
      /\ outcome[r].result.messages \in Contents
      /\ plan[r].pauses = 0 => (calls[r].last.kind = "invoke" /\ reviews[r].n = 0)

C2_Witness ==
  \E r \in Started :
    /\ ~plan[r].always /\ plan[r].pauses = 2 /\ max_iterations[r] = 2 /\ pc[r] = "done"
    /\ calls[r].n = 3 /\ ~HasInterrupt(outcome[r].result) /\ reviews[r].n >= 2

\* C3: the decisions list of a resume call is as long as the action_requests
\* of its batch, every action request was reviewed exactly once, in the
\* agent's order, and the i-th decision is the one returned for the i-th request
C3_DecisionsInOrder ==
  \A r \in Started :
    (calls[r].last.kind = "resume" /\ pc[r] \in {"while", "done"}) =>
      LET passed == calls[r].last.decisions
          batch == calls[r].last.batch
          made == reviews[r].batch
      IN /\ Len(passed) = Len(batch)
         /\ Len(made) = Len(batch)
         /\ \A i \in 1..Len(batch) :
              /\ made[i].index = i
              /\ made[i].action = batch[i]
              /\ passed[i] = made[i].decision

C3_Witness ==
  \E r \in Started :
    /\ calls[r].last.kind = "resume" /\ pc[r] = "while"
    /\ Len(calls[r].last.batch) = 2
    /\ calls[r].last.batch[1] # calls[r].last.batch[2]
    /\ calls[r].last.decisions[1] # calls[r].last.decisions[2]

\* C4: every agent call of a run, the initial invoke and every resume,
\* carries the thread_id the caller supplied
C4_SameThread ==
  \A r \in Started : calls[r].n > 0 => calls[r].last.thread_id = thread_id[r]

C4_Witness ==
  \E r \in Started :
    calls[r].n = 3 /\ calls[r].last.kind = "resume" /\ calls[r].last.thread_id = thread_id[r]

\* run r is at an action request whose name has no entry in review_configs
AtUnconfiguredAction(r) ==
  /\ pc[r] = "for"
  /\ idx[r] <= Len(ActionRequestsOf(r))
  /\ ActionRequestsOf(r)[idx[r]].name \notin ConfiguredNames(r)

\* C5: at an action request whose name has no entry in the batch's
\* review_configs the only step of the run is the error naming that action:
\* no review is made, no decision is added, the action is not skipped, the
\* agent is not resumed, and the run stays ended by the error
C5_MissingConfigRaises ==
  [][\A r \in Started :
       /\ AtUnconfiguredAction(r) =>
            /\ reviews'[r] = reviews[r]
            /\ decisions'[r] = decisions[r]
            /\ idx'[r] = idx[r]
            /\ calls'[r] = calls[r]
            /\ pc'[r] \in {"for", "raised"}
            /\ pc'[r] = "raised" =>
                 /\ outcome'[r].raised = ActionRequestsOf(r)[idx[r]].name
                 /\ ~outcome'[r].returned
       /\ pc[r] = "raised" =>
            (pc'[r] = "raised" /\ calls'[r] = calls[r] /\ reviews'[r] = reviews[r]
             /\ outcome'[r] = outcome[r])]_vars

C5_Witness ==
  \E r \in Started :
    /\ pc[r] = "raised" /\ outcome[r].raised \in ToolNames /\ ~outcome[r].returned
    /\ idx[r] = 2 /\ Len(reviews[r].batch) = 1 /\ calls[r].n = iteration[r]

\* C6: a run that returns has emitted the maximum-iterations warning exactly
\* when the result it returns still carries a pause signal
C6_WarningIffExhausted ==
  \A r \in Started :
    pc[r] = "done" => (outcome[r].warned <=> HasInterrupt(outcome[r].result))

\* C7: with an audit logger, between two log_review calls the run has
\* appended one record per decision it collected: as many records as
\* decisions, and those of the current batch carry the action's name, the
\* decision's type, the configured reviewer name and the run's thread_id
C7_OneRecordPerDecision ==
  \A r \in Started :
    agent_config[r].audit_logger =>
      LET made == reviews[r].batch
          pending == IF pc[r] \in {"log_review", "log_write"} THEN 1 ELSE 0
          base == Len(store.lines) - (Len(made) - pending)
      IN /\ Len(store.lines) = reviews[r].n - pending
         /\ \A i \in 1..(Len(made) - pending) :
              LET record == Loads(store.lines[base + i])
              IN /\ record.action_tool = made[i].action.name
                 /\ record.decision_type = made[i].decision.type
                 /\ record.reviewer = agent_config[r].reviewer_name
                 /\ record.thread_id = thread_id[r]

C7_Witness ==
  \E r \in Started :
    /\ agent_config[r].audit_logger /\ pc[r] = "done"
    /\ reviews[r].n = 3 /\ Len(store.lines) = 3
    /\ \E i, j \in 1..3 : Loads(store.lines[i]).decision_type # Loads(store.lines[j]).decision_type

(***************************************************************************)
(* Properties of the audit trail.                                          *)
(***************************************************************************)
\* the record a log_review call with arguments c is to leave in the store
RecordOfCall(c) ==
  [timestamp |-> c.now,
   thread_id |-> c.thread_id,
   reviewer |-> c.reviewer,
   action_tool |-> c.action_request.name,
   action_args |-> c.action_request.args,
   decision_type |-> c.decision.type,
   edited_args |-> IF c.decision.type = "edit" THEN c.decision.edited_action.args ELSE None,
   context |-> c.context]

IsPrefix(s, t) == Len(s) <= Len(t) /\ \A i \in 1..Len(s) : t[i] = s[i]

\* C8: log_review is append-only: a call adds exactly one record at the end
\* of the store and leaves the records before it as they were, in place, so
\* that the records of the store are those of the calls, in call order
C8_AppendOnly ==
  [][/\ IsPrefix(store.lines, store'.lines)
     /\ Len(store'.lines) = Len(logCalls')
     /\ logCalls' # logCalls =>
          /\ Len(store'.lines) = Len(store.lines) + 1
          /\ store'.exists
     /\ \A i \in 1..Len(logCalls') : Loads(store'.lines[i]) = RecordOfCall(logCalls'[i])]_vars

C8_Witness ==
  /\ Len(logCalls) = 3 /\ Len(store.lines) = 3
  /\ Loads(store.lines[1]).action_tool # Loads(store.lines[2]).action_tool
  /\ Loads(store.lines[2]).decision_type # Loads(store.lines[3]).decision_type

\* the records of the store written for thread t, in store order
RecordsOfThread(t) ==
  SelectSeq([i \in DOMAIN store.lines |-> Loads(store.lines[i])], LAMBDA e : e.thread_id = t)

RECURSIVE TotalLogged(_)
TotalLogged(rs) ==
  IF rs = {} THEN 0
  ELSE LET r == CHOOSE x \in rs : TRUE IN Len(logged[r]) + TotalLogged(rs \ {r})

\* C9: two runs with different thread ids logging to one store: in every
\* interleaving the store holds, for each run, exactly the entries the run
\* logged, each as one intact line, in the order the run logged them, and
\* nothing else
C9_ConcurrentLogsIntact ==
  /\ \A r \in Started : RecordsOfThread(thread_id[r]) = logged[r]
  /\ Len(store.lines) = TotalLogged(Started)
  /\ \A i \in DOMAIN store.lines : Dumps(Loads(store.lines[i])) = store.lines[i]

C9_Witness ==
  /\ thread_id[1] # thread_id[2]
  /\ pc[1] = "log_write" /\ pc[2] = "log_write"
  /\ handle[1].pos = handle[2].pos
  /\ Len(logged[1]) = 1 /\ Len(logged[2]) = 1
  /\ Len(store.lines) = 2

\* the result of get_review_stats has the four keys of the aggregate, its
\* total is n, and the counts of each grouping sum to n
StatsCount(value, n) ==
  /\ DOMAIN value = {"total_reviews", "by_decision", "by_tool", "by_reviewer"}
  /\ value.total_reviews = n
  /\ SumValues(value.by_decision) = n
  /\ SumValues(value.by_tool) = n
  /\ SumValues(value.by_reviewer) = n

\* C10 as stated: after N log_review calls on an initially absent store,
\* N >= 0, get_review_stats returns total_reviews = N and groupings summing to N
C10_StatsCountAll == stats.called => StatsCount(stats.value, stats.after)

\* C10, amended: the same for N >= 1; after no call the store is still
\* absent and the result is the empty aggregate, which has no total_reviews
C10_StatsCountLogged ==
  stats.called =>
    IF stats.after >= 1 THEN StatsCount(stats.value, stats.after)
    ELSE DOMAIN stats.value = {}

C10_Witness ==
  /\ stats.called /\ stats.after = 3 /\ stats.value.total_reviews = 3
  /\ "escalate" \in DOMAIN stats.value.by_decision
  /\ Cardinality(DOMAIN stats.value.by_tool) = 2

(***************************************************************************)
(* Several AuditLogger instances on one store.                             *)
(***************************************************************************)
MaxLoggers == 2       \* largest number of AuditLogger instances constructed

\* variant: the constructor also creates the log file
AuditLoggerInit_Touch(st) == OpenAppend(st)

\* AuditLogger.__init__: the parent directory is created, the file is not touched
AuditLoggerInit(st) == st

\* variant: the file opened for reading with a mode that empties it
AfterRead_Truncating(st) == [exists |-> TRUE, lines |-> <<>>]

\* the store after "with open(self.log_file, 'r') as f: for line in f"
AfterRead(st) == st

\* reviewer_name of the session that owns instance i
InstanceReviewer(i) == IF i = 1 THEN "legal_team_member" ELSE "auto_approve_system"

NewAuditLogger ==
  /\ loggers.n < MaxLoggers
  /\ loggers' = [loggers EXCEPT !.n = @ + 1]
  /\ store' = AuditLoggerInit(store)
  /\ UNCHANGED <<pc, runArgs, runLocals, calls, reviews, logged, outcome, clock, clientVars,
                 levels, review>>

InstanceLogReview(i) ==
  /\ Len(logCalls) < MaxLogs
  /\ \E action \in ActionRequests, decision \in {Approve, Reject} :
       /\ store' = LogReview(store, clock, action, decision, InstanceReviewer(i),
                             "thread_a", NoContext)
       /\ logCalls' = Append(logCalls, [action_request |-> action, decision |-> decision,
                                        reviewer |-> InstanceReviewer(i),
                                        thread_id |-> "thread_a",
                                        context |-> NoContext,
                                        now |-> clock])
  /\ clock' = clock + 1
  /\ loggers' = [loggers EXCEPT !.writers = Append(@, i)]
  /\ UNCHANGED <<pc, runArgs, runLocals, calls, reviews, logged, outcome, stats, levels, review>>

InstanceGetReviewStats(i) ==
  /\ stats' = [called |-> TRUE, after |-> Len(logCalls), value |-> GetReviewStats(store)]
  /\ store' = IF store.exists THEN AfterRead(store) ELSE store
  /\ loggers' = [loggers EXCEPT !.reader = i]
  /\ UNCHANGED <<pc, runArgs, runLocals, calls, reviews, logged, outcome, clock, logCalls,
                 levels, review>>

NextLoggers ==
  \/ NewAuditLogger
  \/ \E i \in 1..loggers.n : InstanceLogReview(i)
  \/ \E i \in 1..loggers.n : InstanceGetReviewStats(i)

SpecLoggers == InitAudit /\ [][NextLoggers]_vars

\* a get_review_stats call returns in this step
StatsReturned == stats' # stats \/ loggers'.reader # loggers.reader

\* C11: get_review_stats returns the empty aggregate {} whenever the store
\* does not exist, as it does after constructing loggers and before any
\* log_review call: constructing a logger does not create the store, and
\* neither does get_review_stats
C11_EmptyStatsOnAbsentStore ==
  [][/\ loggers'.n # loggers.n => store' = store
     /\ (loggers'.n >= 1 /\ Len(logCalls') = 0) => ~store'.exists
     /\ (StatsReturned /\ ~store.exists) =>
          (DOMAIN stats'.value = {} /\ ~store'.exists)]_vars

C11_Witness ==
  /\ loggers.n = 2 /\ loggers.reader = 2 /\ Len(logCalls) = 0
  /\ stats.called /\ DOMAIN stats.value = {} /\ ~store.exists

\* the number of lines whose record has value v in member k
CountWhere(lines, k, v) == Cardinality({i \in DOMAIN lines : Member(lines[i], k) = v})

ValuesOf(lines, k) == {Member(lines[i], k) : i \in DOMAIN lines}

\* the aggregate of a sequence of lines, by counting
Aggregate(lines) ==
  [total_reviews |-> Len(lines),
   by_decision |-> [v \in {"approve", "edit", "reject"} \cup ValuesOf(lines, "decision_type") |->
                      CountWhere(lines, "decision_type", v)],
   by_tool |-> [v \in ValuesOf(lines, "action_tool") |-> CountWhere(lines, "action_tool", v)],
   by_reviewer |-> [v \in ValuesOf(lines, "reviewer") |-> CountWhere(lines, "reviewer", v)]]

\* C12: get_review_stats is a pure fold of the store: whichever instance
\* wrote the records and whichever computes it, the result is the aggregate
\* of the records in the store, the store is left unchanged, and a call that
\* follows another with no log_review in between returns the same result
C12_StatsPureFold ==
  [][StatsReturned =>
       /\ store' = store
       /\ stats'.value = IF store.exists THEN Aggregate(store.lines) ELSE EmptyStats
       /\ (stats.called /\ stats.after = Len(logCalls)) => stats'.value = stats.value]_vars

C12_Witness ==
  /\ stats.called /\ stats.after = 2 /\ Len(logCalls) = 2
  /\ loggers.writers = <<1, 1>> /\ loggers.reader = 2
  /\ stats.value.total_reviews = 2

(***************************************************************************)
(* CLIReviewInterface and AutoApproveInterface: one review_action call,    *)
(* one step per input() read.  Every prompt other than the JSON editor is  *)
(* answered by a line of text; the JSON editor reads lines until the end   *)
(* of the input.                                                           *)
(***************************************************************************)
MaxTodos == 2         \* longest proposed todo list
MaxLines == 3         \* most lines typed into the JSON editor

\* the i-th todo of a proposed list
TodoItem(i) ==
  [task |-> ToString(i),
   status |-> IF i % 2 = 1 THEN "pending" ELSE "in_progress",
   priority |-> IF i % 2 = 1 THEN "high" ELSE "low"]

TodoLists == {[i \in 1..n |-> TodoItem(i)] : n \in 0..MaxTodos}

\* action requests handed to review_action; a text that the code extends is
\* kept as the sequence of its pieces
ReviewRequests ==
  {[name |-> "write_todos", args |-> [todos |-> t]] : t \in TodoLists}
  \cup {[name |-> "task", args |-> [name |-> "legal-analyzer", task |-> <<"Analyze contracts">>]],
        [name |-> "write_file", args |-> [file_path |-> "/report.md", content |-> "draft"]],
        [name |-> "edit_file", args |-> [file_path |-> "/report.md"]]}

AllowedLists ==
  {<<"approve", "edit", "reject">>, <<"approve", "reject">>, <<"approve">>, <<"edit">>, <<>>}

\* review configs with and without the allowed_decisions key
ReviewConfigsFor(name) ==
  {[action_name |-> name]} \cup {[action_name |-> name, allowed_decisions |-> a] : a \in AllowedLists}

ReviewContexts == {NoContext, [stage |-> "analysis"]}

\* x in a Python list
In(x, list) == \E i \in DOMAIN list : list[i] = x

\* review_config.get('allowed_decisions', ['approve', 'edit', 'reject'])
AllowedOf(review_config) ==
  IF "allowed_decisions" \in DOMAIN review_config
  THEN review_config.allowed_decisions
  ELSE <<"approve", "edit", "reject">>

\* lines a human may type at the prompts
TopInputs == {"1", "2", "3", " 3 ", "4", ""}

MenuInputs == {"1", "2", "3", "4", "5", " 5 ", "6", ""}

IndexInputs == {"1", "2", " 1 ", "0", "9", "abc", ""}

Texts == {"", "high", " high "}

EditorContents == {"draft", "final", ""}

JsonTokens == {"{", "}", "[", "]", "1"}

\* str.strip()
Strip(s) ==
  CASE s = " 1 " -> "1"
    [] s = " 3 " -> "3"
    [] s = " 5 " -> "5"
    [] s = " high " -> "high"
    [] OTHER -> s

\* variant: the first operand whatever it is
Or_Left(a, b) == a

\* a or b on strings
Or(a, b) == IF a = "" THEN b ELSE a

\* int(s) succeeds
IsInt(s) == s \in {"0", "1", "2", "9", " 1 "}

\* int(s)
IntOf(s) ==
  CASE s = "0" -> 0
    [] s = "1" -> 1
    [] s = " 1 " -> 1
    [] s = "2" -> 2
    [] s = "9" -> 9

\* list.pop(i - 1)
RemoveAt(list, i) == SubSeq(list, 1, i - 1) \o SubSeq(list, i + 1, Len(list))

\* parsed JSON values
JNumber(n) == [json |-> "number", value |-> n]

JArray(items) == [json |-> "array", items |-> items]

JObject == [json |-> "object", members |-> <<>>]

ParseFail == [ok |-> FALSE, value |-> None, next |-> 0]

\* one JSON value starting at token i
RECURSIVE ParseValue(_, _)
ParseValue(toks, i) ==
  IF i > Len(toks) THEN ParseFail
  ELSE CASE toks[i] = "1" -> [ok |-> TRUE, value |-> JNumber(1), next |-> i + 1]
         [] toks[i] = "{" ->
              IF i + 1 <= Len(toks) /\ toks[i + 1] = "}"
              THEN [ok |-> TRUE, value |-> JObject, next |-> i + 2]
              ELSE ParseFail
         [] toks[i] = "[" ->
              IF i + 1 <= Len(toks) /\ toks[i + 1] = "]"
              THEN [ok |-> TRUE, value |-> JArray(<<>>), next |-> i + 2]
              ELSE LET inner == ParseValue(toks, i + 1)
                   IN  IF inner.ok /\ inner.next <= Len(toks) /\ toks[inner.next] = "]"
                       THEN [ok |-> TRUE, value |-> JArray(<<inner.value>>),
                             next |-> inner.next + 1]
                       ELSE ParseFail
         [] OTHER -> ParseFail

\* json.loads('\n'.join(lines)): one value and nothing after it
JsonLoads(lines) ==
  LET r == ParseValue(lines, 1)
  IN  IF r.ok /\ r.next = Len(lines) + 1 THEN r ELSE ParseFail

\* variant: approves only what the config allows
AutoApprove_Checked(action_request, review_config, context) ==
  IF In("approve", AllowedOf(review_config)) THEN Approve ELSE Reject

\* AutoApproveInterface.review_action
AutoApprove(action_request, review_config, context) == Approve

\* variant: the numbers are accepted whatever the config allows
TopBranch_Unchecked(choice, allowed) ==
  CASE choice = "1" -> "approve"
    [] choice = "2" -> "edit"
    [] choice = "3" -> "reject"
    [] OTHER -> "invalid"

\* the branch of the decision loop taken for a stripped choice
TopBranch(choice, allowed) ==
  IF choice = "1" /\ In("approve", allowed) THEN "approve"
  ELSE IF choice = "2" /\ In("edit", allowed) THEN "edit"
  ELSE IF choice = "3" /\ In("reject", allowed) THEN "reject"
  ELSE "invalid"

\* _handle_edit: the editor of a tool
HandleEdit(tool_name) ==
  CASE tool_name = "write_todos" -> "todos_menu"
    [] tool_name = "task" -> "task_menu"
    [] tool_name = "write_file" -> "file_menu"
    [] OTHER -> "generic"

\* variant: choice 5 of the todo menu is not handled
TodosBranch_NoCancel(choice) ==
  CASE choice = "1" -> "add"
    [] choice = "2" -> "remove"
    [] choice = "3" -> "priority"
    [] choice = "4" -> "generic"
    [] OTHER -> "done"

\* _edit_todos: the branch taken for a stripped choice
TodosBranch(choice) ==
  CASE choice = "1" -> "add"
    [] choice = "2" -> "remove"
    [] choice = "3" -> "priority"
    [] choice = "4" -> "generic"
    [] choice = "5" -> "cancel"
    [] OTHER -> "done"

\* _edit_task: the branch taken for a stripped choice
TaskBranch(choice) ==
  CASE choice = "1" -> "context"
    [] choice = "2" -> "subagent"
    [] choice = "3" -> "generic"
    [] OTHER -> "cancel"

\* _edit_file: the branch taken for a stripped choice
FileBranch(choice) ==
  CASE choice = "1" -> "path"
    [] choice = "2" -> "editor"
    [] choice = "3" -> "generic"
    [] OTHER -> "cancel"

\* variant: text that does not parse yields an edit to an empty object
EditGeneric_Lenient(action_request, lines) ==
  LET r == JsonLoads(lines)
  IN  Edit(action_request.name, IF r.ok THEN r.value ELSE JObject)

\* _edit_generic once the input has ended
EditGeneric(action_request, lines) ==
  LET r == JsonLoads(lines)
  IN  IF r.ok THEN Edit(action_request.name, r.value) ELSE Reject

\* the edit decision _edit_todos returns: the list is the request's own
TodosEdit(todos) == Edit("write_todos", [todos |-> todos])

otherThanReview ==
  <<pc, runArgs, runLocals, calls, reviews, logged, outcome, store, clock, clientVars,
    loggers, levels>>

\* the call returns a decision
Returns(r, decision) == [r EXCEPT !.pc = "returned", !.answer = decision]

\* the call ends with an exception
Raises(r, exception) == [r EXCEPT !.pc = "raised", !.raised = exception]

Goto(r, p) == [r EXCEPT !.pc = p]

\* the todo list of the request is replaced by todos (the list is shared)
WithTodos(r, todos) == [r EXCEPT !.request.args.todos = todos]

AutoReviewAction ==
  /\ review.pc = "idle"
  /\ \E action_request \in ReviewRequests, context \in ReviewContexts :
       \E review_config \in ReviewConfigsFor(action_request.name) :
         review' = [review EXCEPT !.pc = "returned", !.interface = "auto",
                                  !.request = action_request, !.original = action_request,
                                  !.config = review_config, !.context = context,
                                  !.answer = AutoApprove(action_request, review_config, context)]
  /\ UNCHANGED otherThanReview

CliReviewAction ==
  /\ review.pc = "idle"
  /\ \E action_request \in ReviewRequests, context \in ReviewContexts :
       \E review_config \in ReviewConfigsFor(action_request.name) :
         review' = [review EXCEPT !.pc = "top", !.interface = "cli",
                                  !.request = action_request, !.original = action_request,
                                  !.config = review_config, !.context = context]
  /\ UNCHANGED otherThanReview

TopChoice ==
  /\ review.pc = "top"
  /\ \E line \in TopInputs :
       LET choice == Strip(line)
           branch == TopBranch(choice, AllowedOf(review.config))
           r == [review EXCEPT !.choice = choice,
                               !.tried = @ \cup ({choice} \cap {"1", "2", "3"})]
       IN  review' =
             CASE branch = "approve" -> [r EXCEPT !.pc = "returned", !.answer = Approve]
               [] branch = "edit" -> [r EXCEPT !.pc = HandleEdit(review.request.name)]
               [] branch = "reject" -> [r EXCEPT !.pc = "returned", !.answer = Reject]
               [] OTHER -> r
  /\ UNCHANGED otherThanReview

Todos == review.request.args.todos

TodosMenu ==
  /\ review.pc = "todos_menu"
  /\ \E line \in MenuInputs :
       LET branch == TodosBranch(Strip(line))
           r == [review EXCEPT !.edit_choice = Strip(line)]
       IN  review' =
             CASE branch = "add" -> Goto(r, "todos_add_task")
               [] branch = "remove" -> Goto(r, "todos_remove_num")
               [] branch = "priority" -> Goto(r, "todos_priority_num")
               [] branch = "generic" -> Goto(r, "generic")
               [] branch = "cancel" -> Returns(r, Reject)
               [] OTHER -> Returns(r, TodosEdit(Todos))
  /\ UNCHANGED otherThanReview

TodosAddTask ==
  /\ review.pc = "todos_add_task"
  /\ \E task \in Texts :
       review' = [review EXCEPT !.pc = "todos_add_priority", !.local = <<task>>]
  /\ UNCHANGED otherThanReview

TodosAddPriority ==
  /\ review.pc = "todos_add_priority"
  /\ \E line \in Texts :
       LET priority == Or(Strip(line), "medium")
           todos == Append(Todos, [task |-> review.local[1], status |-> "pending",
                                   priority |-> priority])
       IN  review' = [WithTodos(review, todos) EXCEPT !.pc = "returned",
                                                      !.local = <<review.local[1], line>>,
                                                      !.answer = TodosEdit(todos)]
  /\ UNCHANGED otherThanReview

TodosRemoveNum ==
  /\ review.pc = "todos_remove_num"
  /\ \E line \in IndexInputs :
       IF ~IsInt(line)
       THEN review' = Raises(review, "ValueError")
       ELSE LET num == IntOf(line)
                todos == IF 1 <= num /\ num <= Len(Todos) THEN RemoveAt(Todos, num) ELSE Todos
            IN  review' = [WithTodos(review, todos) EXCEPT !.pc = "returned",
                                                           !.answer = TodosEdit(todos)]
  /\ UNCHANGED otherThanReview

TodosPriorityNum ==
  /\ review.pc = "todos_priority_num"
  /\ \E line \in IndexInputs :
       IF ~IsInt(line)
       THEN review' = Raises(review, "ValueError")
       ELSE LET num == IntOf(line)
            IN  IF 1 <= num /\ num <= Len(Todos)
                THEN review' = [review EXCEPT !.pc = "todos_priority_value", !.local = <<num>>]
                ELSE review' = Returns(review, TodosEdit(Todos))
  /\ UNCHANGED otherThanReview

TodosPriorityValue ==
  /\ review.pc = "todos_priority_value"
  /\ \E priority \in Texts :
       LET todos == [Todos EXCEPT ![review.local[1]].priority = priority]
       IN  review' = [WithTodos(review, todos) EXCEPT !.pc = "returned",
                                                      !.answer = TodosEdit(todos)]
  /\ UNCHANGED otherThanReview

\* variant: the new text replaces the task description
AddContext_Replace(args, additional_context) ==
  [name |-> args.name, task |-> <<additional_context>>]

\* the args _edit_task returns for "add context": the f-string of line 279
AddContext(args, additional_context) ==
  [name |-> args.name,
   task |-> args.task \o <<"\n\nADDITIONAL CONTEXT:\n", additional_context>>]

\* the args _edit_task returns for "change subagent"
ChangeSubagent(args, new_subagent) == [name |-> new_subagent, task |-> args.task]

\* the args _edit_file returns for "change file path"
ChangeFilePath(args, new_path) == [file_path |-> new_path, content |-> args.content]

TaskMenu ==
  /\ review.pc = "task_menu"
  /\ \E line \in MenuInputs :
       LET branch == TaskBranch(Strip(line))
           r == [review EXCEPT !.edit_choice = Strip(line)]
       IN  review' =
             CASE branch = "context" -> Goto(r, "task_context")
               [] branch = "subagent" -> Goto(r, "task_subagent")
               [] branch = "generic" -> Goto(r, "generic")
               [] OTHER -> Returns(r, Reject)
  /\ UNCHANGED otherThanReview

TaskContext ==
  /\ review.pc = "task_context"
  /\ \E additional_context \in Texts :
       review' = Returns(review, Edit("task", AddContext(review.request.args,
                                                         additional_context)))
  /\ UNCHANGED otherThanReview

TaskSubagent ==
  /\ review.pc = "task_subagent"
  /\ \E line \in Texts :
       review' = Returns(review, Edit("task", ChangeSubagent(review.request.args,
                                                             Strip(line))))
  /\ UNCHANGED otherThanReview

FileMenu ==
  /\ review.pc = "file_menu"
  /\ \E line \in MenuInputs :
       LET branch == FileBranch(Strip(line))
           r == [review EXCEPT !.edit_choice = Strip(line)]
       IN  review' =
             CASE branch = "path" -> Goto(r, "file_path")
               [] branch = "editor" -> Goto(r, "file_editor")
               [] branch = "generic" -> Goto(r, "generic")
               [] OTHER -> Returns(r, Reject)
  /\ UNCHANGED otherThanReview

FilePath ==
  /\ review.pc = "file_path"
  /\ \E line \in Texts :
       review' = Returns(review, Edit("write_file", ChangeFilePath(review.request.args,
                                                                   Strip(line))))
  /\ UNCHANGED otherThanReview

\* the content is written to a temporary file, edited there and read back
FileEditor ==
  /\ review.pc = "file_editor"
  /\ \E edited_content \in EditorContents :
       review' = Returns(review, Edit("write_file", [file_path |-> review.request.args.file_path,
                                             content |-> edited_content]))
  /\ UNCHANGED otherThanReview

GenericLine ==
  /\ review.pc = "generic"
  /\ Len(review.local) < MaxLines
  /\ \E line \in JsonTokens : review' = [review EXCEPT !.local = Append(@, line)]
  /\ UNCHANGED otherThanReview

GenericEOF ==
  /\ review.pc = "generic"
  /\ review' = Returns(review, EditGeneric(review.request, review.local))
  /\ UNCHANGED otherThanReview

NextReview ==
  \/ AutoReviewAction
  \/ CliReviewAction
  \/ TopChoice
  \/ TodosMenu
  \/ TodosAddTask
  \/ TodosAddPriority
  \/ TodosRemoveNum
  \/ TodosPriorityNum
  \/ TodosPriorityValue
  \/ TaskMenu
  \/ TaskContext
  \/ TaskSubagent
  \/ FileMenu
  \/ FilePath
  \/ FileEditor
  \/ GenericLine
  \/ GenericEOF

SpecReview == InitAudit /\ [][NextReview]_vars

\* C13: AutoApproveInterface.review_action returns approve for every action,
\* every review config (one whose allowed_decisions leaves out approve
\* included) and every context; it never returns edit or reject
C13_AutoAlwaysApproves ==
  review.interface = "auto" => (review.pc = "returned" /\ review.answer = Approve)

C13_Witness ==
  /\ review.interface = "auto" /\ review.pc = "returned" /\ review.answer = Approve
  /\ review.config = [action_name |-> "edit_file", allowed_decisions |-> <<"edit">>]
  /\ review.context # NoContext

\* the review config of edit_file under moderate oversight
ModerateEditFile == [action_name |-> "edit_file", allowed_decisions |-> <<"approve", "reject">>]

\* the numbers of the decisions a config allows
AllowedNumbers(review_config) ==
  {n \in {"1", "2", "3"} :
     \/ n = "1" /\ In("approve", AllowedOf(review_config))
     \/ n = "2" /\ In("edit", AllowedOf(review_config))
     \/ n = "3" /\ In("reject", AllowedOf(review_config))}

\* C14: at the top-level prompt an input that is not the number of an
\* allowed decision returns no decision and the prompt is shown again; under
\* the edit_file config of moderate oversight, which allows approve and
\* reject, choosing edit re-prompts and no edit decision is ever returned
C14_DisallowedChoiceReprompts ==
  [][/\ (review.pc = "top" /\ review' # review
         /\ review'.choice \notin AllowedNumbers(review.config)) =>
          (review'.pc = "top" /\ review'.answer = IdleReview.answer)
     /\ review'.config = ModerateEditFile =>
          (review'.answer.type # "edit" /\ review'.pc \in {"top", "returned"})]_vars

C14_Witness ==
  /\ review.interface = "cli" /\ review.config = ModerateEditFile
  /\ review.pc = "top" /\ review.choice = "2"

\* the number of the cancel entry of a sub-menu
CancelEntry(menu) == IF menu = "todos_menu" THEN "5" ELSE "4"

\* C15: in each editing sub-menu (write_todos, task, write_file) choosing the
\* cancel entry returns a reject decision, which carries no edited action
C15_CancelRejects ==
  [][(review.pc \in {"todos_menu", "task_menu", "file_menu"}
      /\ review'.edit_choice = CancelEntry(review.pc)) =>
       (review'.pc = "returned" /\ review'.answer = Reject)]_vars

C15_Witness ==
  /\ review.request.name = "write_todos" /\ review.edit_choice = "5"
  /\ review.pc = "returned" /\ review.answer = Reject

\* C16: the generic edit returns reject and raises nothing whenever the
\* entered text does not parse; when it parses it returns an edit whose
\* edited action has the original action name and the parsed value as args
C16_GenericEditParsesOrRejects ==
  [][(review.pc = "generic" /\ review'.pc # "generic") =>
       /\ review'.pc = "returned"
       /\ review'.answer = IF JsonLoads(review.local).ok
                           THEN Edit(review.original.name, JsonLoads(review.local).value)
                           ELSE Reject]_vars

C16_Witness ==
  /\ review.pc = "returned" /\ review.request.name = "edit_file"
  /\ review.local = <<"[", "1", "]">>
  /\ review.answer = Edit("edit_file", JArray(<<JNumber(1)>>))

\* C17: for every action kind and every sequence of human inputs,
\* non-numeric text and out-of-range numbers at an index prompt and unknown
\* menu choices included, review_action returns a decision and never raises
C17_NeverRaises == review.pc # "raised"

\* C18: review_action is total: for every review config, one whose
\* allowed_decisions has none of approve, edit and reject included, the call
\* returns once the human has tried each of 1, 2 and 3
C18_ReturnsOnceAllTried == ({"1", "2", "3"} \subseteq review.tried) => review.pc # "top"

(***************************************************************************)
(* ApprovalLevel: the interrupt_on mappings.  A value is a flag or a       *)
(* dictionary of allowed decisions.                                        *)
(***************************************************************************)
MaxLevels == 2        \* most approval levels constructed in one session

Flag(b) == [kind |-> "bool", value |-> b]

OnlyDecisions(allowed) == [kind |-> "dict", allowed_decisions |-> allowed]

HighOversight ==
  [write_todos |-> Flag(TRUE),
   task |-> Flag(TRUE),
   get_document |-> Flag(TRUE),
   get_document_pages |-> Flag(TRUE),
   write_file |-> Flag(TRUE),
   edit_file |-> Flag(TRUE)]

ModerateOversight ==
  [write_todos |-> Flag(TRUE),
   task |-> Flag(TRUE),
   get_document |-> Flag(FALSE),
   get_document_pages |-> Flag(FALSE),
   write_file |-> Flag(TRUE),
   edit_file |-> OnlyDecisions(<<"approve", "reject">>)]

MinimalOversight ==
  [write_todos |-> Flag(FALSE),
   task |-> Flag(FALSE),
   get_document |-> Flag(FALSE),
   get_document_pages |-> Flag(FALSE),
   write_file |-> Flag(TRUE),
   edit_file |-> Flag(TRUE)]

\* variant: document access governs get_document only
Custom_NoPages(planning, delegation, document_access, file_operations) ==
  [write_todos |-> Flag(planning),
   task |-> Flag(delegation),
   get_document |-> Flag(document_access),
   write_file |-> Flag(file_operations),
   edit_file |-> Flag(file_operations)]

\* variant: edit_file follows document access
Custom_EditAsDocument(planning, delegation, document_access, file_operations) ==
  [write_todos |-> Flag(planning),
   task |-> Flag(delegation),
   get_document |-> Flag(document_access),
   get_document_pages |-> Flag(document_access),
   write_file |-> Flag(file_operations),
   edit_file |-> Flag(document_access)]

Custom(planning, delegation, document_access, file_operations) ==
  [write_todos |-> Flag(planning),
   task |-> Flag(delegation),
   get_document |-> Flag(document_access),
   get_document_pages |-> Flag(document_access),
   write_file |-> Flag(file_operations),
   edit_file |-> Flag(file_operations)]

otherThanLevels ==
  <<pc, runArgs, runLocals, calls, reviews, logged, outcome, store, clock, clientVars,
    loggers, review>>

\* the session keeps the mapping a constructor returned, with the call made
Constructed(fn, args, value) ==
  /\ Len(levels) < MaxLevels
  /\ levels' = Append(levels, [fn |-> fn, args |-> args, value |-> value])
  /\ UNCHANGED otherThanLevels

CallHighOversight == Constructed("high_oversight", <<>>, HighOversight)

CallModerateOversight == Constructed("moderate_oversight", <<>>, ModerateOversight)

CallMinimalOversight == Constructed("minimal_oversight", <<>>, MinimalOversight)

CallCustom ==
  \E planning \in BOOLEAN, delegation \in BOOLEAN,
     document_access \in BOOLEAN, file_operations \in BOOLEAN :
    Constructed("custom", <<planning, delegation, document_access, file_operations>>,
                Custom(planning, delegation, document_access, file_operations))

NextPolicy ==
  \/ CallHighOversight
  \/ CallModerateOversight
  \/ CallMinimalOversight
  \/ CallCustom

SpecPolicy == InitAudit /\ [][NextPolicy]_vars

\* the constructed levels made by constructor fn with arguments args
LevelsOf(fn, args) == {i \in DOMAIN levels : levels[i].fn = fn /\ levels[i].args = args}

\* C19: each of the four constructors returns a mapping whose key set is
\* exactly write_todos, task, get_document, get_document_pages, write_file
\* and edit_file
C19_SixKeys ==
  \A i \in DOMAIN levels :
    DOMAIN levels[i].value =
      {"write_todos", "task", "get_document", "get_document_pages", "write_file", "edit_file"}

C19_Witness ==
  /\ Len(levels) = 2
  /\ levels[1].fn = "moderate_oversight"
  /\ levels[2].fn = "custom" /\ levels[2].args = <<FALSE, TRUE, TRUE, FALSE>>
  /\ DOMAIN levels[1].value = DOMAIN levels[2].value
  /\ Cardinality(DOMAIN levels[2].value) = 6

\* C20: custom(True, True, True, True) equals high_oversight() and
\* custom(False, False, False, True) equals minimal_oversight()
C20_CustomMatchesPresets ==
  /\ \A i \in LevelsOf("custom", <<TRUE, TRUE, TRUE, TRUE>>), j \in LevelsOf("high_oversight", <<>>) :
       levels[i].value = levels[j].value
  /\ \A i \in LevelsOf("custom", <<FALSE, FALSE, FALSE, TRUE>>),
        j \in LevelsOf("minimal_oversight", <<>>) :
       levels[i].value = levels[j].value

C20_Witness ==
  /\ LevelsOf("custom", <<FALSE, FALSE, FALSE, TRUE>>) = {1}
  /\ LevelsOf("minimal_oversight", <<>>) = {2}
  /\ levels[1].value = levels[2].value

\* C21: add-todo on a list of n items returns an edit named write_todos
\* whose list has n+1 items: the n original items unchanged and in order,
\* then a new item with the entered task, status pending and the entered
\* priority, medium when the priority input is blank
C21_AddTodoAppends ==
  [][(review.pc = "todos_add_priority" /\ review'.pc # review.pc) =>
       LET before == review.original.args.todos
           after == review'.answer.edited_action.args.todos
           n == Len(before)
           entered == Strip(review'.local[2])
       IN  /\ review'.pc = "returned"
           /\ review'.answer.type = "edit"
           /\ review'.answer.edited_action.name = "write_todos"
           /\ Len(after) = n + 1
           /\ SubSeq(after, 1, n) = before
           /\ after[n + 1] = [task |-> review.local[1], status |-> "pending",
                              priority |-> IF entered = "" THEN "medium" ELSE entered]]_vars

C21_Witness ==
  /\ review.pc = "returned" /\ review.edit_choice = "1"
  /\ review.original.args = [todos |-> <<TodoItem(1)>>]
  /\ review.local = <<"high", "">>
  /\ review.answer = TodosEdit(<<TodoItem(1),
                                 [task |-> "high", status |-> "pending", priority |-> "medium"]>>)

\* C22: the targeted edits change only the targeted field: add-context
\* keeps the subagent name and sets task to the original task followed by
\* the ADDITIONAL CONTEXT block and the new text, change-subagent keeps
\* task, change-file-path keeps content; each keeps the original action name
C22_TargetedEditsKeepTheRest ==
  [][(review.pc \in {"task_context", "task_subagent", "file_path"} /\ review'.pc # review.pc) =>
       LET before == review.original.args
           edited == review'.answer.edited_action
       IN  /\ review'.pc = "returned"
           /\ review'.answer.type = "edit"
           /\ edited.name = review.original.name
           /\ DOMAIN edited.args = DOMAIN before
           /\ review.pc = "task_context" =>
                /\ edited.args.name = before.name
                /\ \E text \in Texts :
                     edited.args.task = before.task \o <<"\n\nADDITIONAL CONTEXT:\n", text>>
           /\ review.pc = "task_subagent" => edited.args.task = before.task
           /\ review.pc = "file_path" => edited.args.content = before.content]_vars

C22_Witness ==
  /\ review.pc = "returned" /\ review.request.name = "task" /\ review.edit_choice = "1"
  /\ review.answer.type = "edit"
  /\ review.answer.edited_action.args =
       [name |-> "legal-analyzer",
        task |-> <<"Analyze contracts", "\n\nADDITIONAL CONTEXT:\n", "high">>]

(***************************************************************************)
(* An audit store that also holds blank lines, left there by something     *)
(* other than log_review.                                                  *)
(***************************************************************************)
MaxBlank == 1         \* most blank lines in the store

\* a line that holds nothing but its line break
BlankLine == <<>>

\* json.loads(line) raises JSONDecodeError
LoadsRaises(line) == line = BlankLine

\* get_review_stats on a store whose lines need not parse: the first line
\* that does not parse ends the call with the exception of json.loads
GetReviewStatsOutcome(st) ==
  IF st.exists /\ \E i \in DOMAIN st.lines : LoadsRaises(st.lines[i])
  THEN [raised |-> "JSONDecodeError", value |-> None]
  ELSE [raised |-> None, value |-> GetReviewStats(st)]

BlankLines(st) == {i \in DOMAIN st.lines : st.lines[i] = BlankLine}

\* a blank line is added at the end of the file
BlankLineAdded ==
  /\ store.exists
  /\ Cardinality(BlankLines(store)) < MaxBlank
  /\ store' = [store EXCEPT !.lines = Append(@, BlankLine)]
  /\ UNCHANGED <<pc, runArgs, runLocals, calls, reviews, logged, outcome, clock, clientVars,
                 sessionVars>>

SessionLogReview ==
  /\ Len(logCalls) < MaxLogs
  /\ \E action \in ActionRequests, decision \in {Approve, Reject} :
       /\ store' = LogReview(store, clock, action, decision, "legal_team_member",
                             "thread_a", NoContext)
       /\ logCalls' = Append(logCalls, [action_request |-> action, decision |-> decision,
                                        reviewer |-> "legal_team_member",
                                        thread_id |-> "thread_a",
                                        context |-> NoContext,
                                        now |-> clock])
  /\ clock' = clock + 1
  /\ UNCHANGED <<pc, runArgs, runLocals, calls, reviews, logged, outcome, stats, sessionVars>>

SessionGetReviewStats ==
  /\ stats' = [called |-> TRUE, after |-> Len(logCalls),
               value |-> GetReviewStatsOutcome(store).value,
               raised |-> GetReviewStatsOutcome(store).raised]
  /\ UNCHANGED <<pc, runArgs, runLocals, calls, reviews, logged, outcome, store, clock,
                 logCalls, sessionVars>>

NextBlank == SessionLogReview \/ BlankLineAdded \/ SessionGetReviewStats

SpecBlank == InitAudit /\ [][NextBlank]_vars

\* C23: get_review_stats tolerates blank lines in the store: they are
\* skipped, the call does not fail, and the aggregate counts exactly the
\* non-empty records
C23_BlankLinesSkipped ==
  stats.called =>
    /\ stats.raised = None
    /\ DOMAIN stats.value # {} => stats.value.total_reviews = stats.after

\* C24: a review never mutates the action request it is given: when
\* review_action has returned, the request's name and args equal their
\* values before the call
C24_RequestNotMutated == review.pc = "returned" => review.request = review.original

\* C26: every decision CLIReviewInterface.review_action returns has a type
\* contained in the allowed decisions of the review config
C26_DecisionAllowed ==
  (review.interface = "cli" /\ review.pc = "returned") =>
    In(review.answer.type, AllowedOf(review.config))

\* the numbers of the edit options a sub-menu lists, cancel left out
ListedEditOptions(tool_name) ==
  IF tool_name = "write_todos" THEN {"1", "2", "3", "4"} ELSE {"1", "2", "3"}

\* C30: in the write_todos, task and write_file sub-menus a choice that is
\* not a listed edit option is treated like cancel and yields reject; an
\* edit decision is returned only after a listed edit option was chosen
C30_UnlistedChoiceRejects ==
  (review.pc = "returned" /\ review.edit_choice # None) =>
    IF review.edit_choice \in ListedEditOptions(review.original.name)
    THEN TRUE
    ELSE review.answer = Reject

(***************************************************************************)
(* One pass of the review loop body with the interface's own flows: the    *)
(* action handed to review_action is the object then handed to log_review. *)
(***************************************************************************)
\* reviewer_name configured with an interface
ReviewerOf(interface) ==
  IF interface = "cli" THEN "legal_team_member" ELSE "auto_approve_system"

\* audit_logger.log_review(action_request=action, decision=decision, ...)
\* after review_action returned
LogReturned ==
  /\ review.pc = "returned"
  /\ store' = LogReview(store, clock, review.request, review.answer,
                        ReviewerOf(review.interface), "thread_a", review.context)
  /\ clock' = clock + 1
  /\ review' = [review EXCEPT !.pc = "logged"]
  /\ UNCHANGED <<pc, runArgs, runLocals, calls, reviews, logged, outcome, clientVars,
                 loggers, levels>>

NextReviewLoop == NextReview \/ LogReturned

SpecReviewLoop == InitAudit /\ [][NextReviewLoop]_vars

\* the record log_review has just written
LastRecord == Loads(store.lines[Len(store.lines)])

\* C25: every audit record written by the loop holds in action_args the
\* args the agent originally proposed and in edited_args the args of the
\* edited action when the decision is an edit (null otherwise), so for an
\* edit that changed something action_args and edited_args differ
C25_RecordKeepsProposedArgs ==
  review.pc = "logged" =>
    /\ LastRecord.action_args = review.original.args
    /\ LastRecord.edited_args = EditedArgsOf(review.answer)
    /\ (review.answer.type = "edit" /\ review.answer.edited_action.args # review.original.args)
         => LastRecord.action_args # LastRecord.edited_args

(***************************************************************************)
(* The control loop when every agent call and every review returns: a run  *)
(* that can take a step eventually takes one.                              *)
(***************************************************************************)
SpecFair == Init /\ [][Next]_vars /\ WF_vars(RunStep(1))

\* the run has ended, by returning or by an error
Ended(r) == pc[r] \in {"done", "raised"}

\* the resuming calls a run has made: every agent call but the first
ResumeCalls(r) == IF calls[r].n = 0 THEN 0 ELSE calls[r].n - 1

\* C27: for every agent behaviour, one that pauses for ever included, and
\* every max_iterations >= 0, run_agent_with_hitl terminates when each agent
\* call and each review returns, having made at most max_iterations resume
\* calls and at most max_iterations + 1 agent calls; the iteration counter
\* never exceeds max_iterations
C27_Terminates ==
  /\ [](/\ iteration[1] <= max_iterations[1]
        /\ ResumeCalls(1) <= max_iterations[1]
        /\ calls[1].n <= max_iterations[1] + 1)
  /\ <>Ended(1)

C27_Witness ==
  /\ plan[1].always /\ max_iterations[1] = MaxIter
  /\ pc[1] = "done" /\ outcome[1].returned
  /\ iteration[1] = MaxIter /\ calls[1].n = MaxIter + 1

(***************************************************************************)
(* The control loop with an audit file that may refuse to be opened.       *)
(***************************************************************************)
\* audit_logger.log_review(...): open(self.log_file, 'a') raises OSError,
\* which nothing between the open and the caller of the run catches
LogOpenFails(r) ==
  /\ pc[r] = "log_review"
  /\ outcome' = [outcome EXCEPT ![r] = [returned |-> FALSE, result |-> NoResult,
                                        warned |-> FALSE, raised |-> "OSError"]]
  /\ pc' = [pc EXCEPT ![r] = "raised"]
  /\ UNCHANGED <<runArgs, runLocals, calls, reviews, logged, store, clock, clientVars,
                 sessionVars>>

NextFailing == Next \/ \E r \in Runs : LogOpenFails(r)

SpecFailing == Init /\ [][NextFailing]_vars

\* the decisions of the reviews of the current batch are the decision list
\* of the last agent call, a resume
BatchDelivered(r) ==
  /\ calls[r].last.kind = "resume"
  /\ calls[r].last.decisions = [i \in DOMAIN reviews[r].batch |-> reviews[r].batch[i].decision]

\* C28: the decision/resume flow does not depend on audit logging: as in a
\* run without a logger, a run with a logger, writing or failing to write,
\* that has ended without meeting an unconfigured action has passed the
\* decisions of every review it solicited to the agent
C28_FlowIgnoresAudit ==
  (Ended(1) /\ reviews[1].batch # <<>> /\ outcome[1].raised \notin ToolNames) =>
    BatchDelivered(1)

\* C29: every audit record the loop appends belongs to a decision delivered
\* to the agent: when the run has ended, by returning or by an error, the
\* decisions logged for the last batch are those passed to the last resume
C29_LoggedAreDelivered ==
  (Ended(1) /\ agent_config[1].audit_logger /\ logged[1] # <<>>) =>
    /\ BatchDelivered(1)
    /\ Len(logged[1]) = reviews[1].n

====
